---- MODULE Spec2Model ----
(***************************************************************************)
(* Model of the conservative mark-sweep collector of                       *)
(* src/runtime/gc_extalloc.go (build tag gc.extalloc): the allocation      *)
(* registry, heapsort / binary search, mark engine, scan queue, sweep and  *)
(* the heap-growth loop of alloc, on top of the host allocator             *)
(* extalloc / extfree.                                                     *)
(*                                                                         *)
(* Machine words are scaled down: a pointer has PtrSize bytes of           *)
(* ByteRadix values each, so uintptr arithmetic is modulo AddrSpace and    *)
(* uint64 arithmetic modulo Wide.                                          *)
(***************************************************************************)
EXTENDS Integers, Sequences, FiniteSets, TLC

(* ------------------------------ machine -------------------------------- *)

\* unsafe.Sizeof(unsafe.Pointer(nil)) and unsafe.Alignof(unsafe.Pointer(nil)), scaled
PtrSize == 2

\* number of values of one byte, scaled
ByteRadix == 4

\* number of values of a uintptr: ByteRadix^PtrSize
AddrSpace == ByteRadix * ByteRadix

\* number of values of a uint64 (twice the width of uintptr)
Wide == AddrSpace * AddrSpace

\* wasmPageSize, scaled
wasmPageSize == 2

\* the initial limit is taken for every page size from MinPageSize to
\* wasmPageSize, so that a doubling of the limit that fits the word and one
\* that wraps both occur
MinPageSize == 1

Addr == 0 .. (AddrSpace - 1)

\* the pointer-aligned addresses
WordAddrs == {a \in Addr : a % PtrSize = 0}

\* ^uintptr(0)
AllOnes == AddrSpace - 1

(* ------------------------------- bounds -------------------------------- *)

\* alloc is called at most MaxMallocs times in a behaviour
MaxMallocs == 3

\* the sizes requested from alloc are 0 .. MaxSize and HugeSize
MaxSize == 2

\* at most MaxPtrs of the words a cycle scans (stack, globals and registered
\* regions together) hold a non-zero value; the words of the registered
\* regions are all zero when the globals hold one
MaxPtrs == 3

\* the host allocator answers nil at most MaxNils times while it has room
MaxNils == 1

\* the program calls free at most MaxUserFrees times in a behaviour
MaxUserFrees == 1

(* --------------------------- the environment --------------------------- *)

\* a request so large that, with its header, it fits a word and its sum with
\* a gcTotalAlloc that is not zero does not
HugeSize == AddrSpace - 2 * PtrSize

\* the sizes the program passes to alloc
Sizes == (0 .. MaxSize) \cup {HugeSize}

\* address of zeroSizedAlloc, a global outside the host allocator's heap
SentinelAddr == 1

\* the host allocator hands out regions inside [HeapLo, HeapHi); no region
\* reaches the last pointer-sized window of the address space
HeapLo == PtrSize

HeapHi == AddrSpace - PtrSize - 1

\* a root range (the stack extent, the globals) is [0, RootSize) of its own memory
RootSize == PtrSize

\* align(x): round up to the pointer alignment (spec 4.G step 4, scenario S2)
align(x) == (((x + PtrSize - 1) \div PtrSize) * PtrSize) % AddrSpace

\* the request whose size wraps to zero when alloc adds the header to it
WrapSize == AddrSpace - align(PtrSize)

(* -------------------------- allocation records ------------------------- *)

\* heapAllocation; next is the slot (1-based) of the record linked to, 0 for nil
heapAllocation(s, e, m, n) == [start |-> s, end |-> e, marked |-> m, next |-> n]

\* newHeapAllocation(ptr, size)
newHeapAllocation(ptr, sz) == heapAllocation(ptr, (ptr + sz) % AddrSpace, FALSE, 0)

\* a slot of a registry buffer that was never written
NoRecord == heapAllocation(0, 0, FALSE, 0)

\* double(value)
double(value) == IF value = 0 THEN 1 ELSE 2 * value

\* arr[i] with the 0-based index of the source
At(arr, i) == arr[i + 1]

\* arr[i], arr[j] = arr[j], arr[i]
Swap(arr, i, j) == [arr EXCEPT ![i + 1] = arr[j + 1], ![j + 1] = arr[i + 1]]

(* ------------------------------ heapsort ------------------------------- *)

\* mutation of heapifyMax: the right child is compared with the root, not
\* with the larger of the root and the left child
heapifyMax_rightVsRoot(arr, n, i) ==
    LET left == 2 * i + 1
        right == 2 * i + 2
        m1 == IF left < n /\ At(arr, left).start > At(arr, i).start THEN left ELSE i
    IN IF right < n /\ At(arr, right).start > At(arr, i).start THEN right ELSE m1

\* the child that heapify moves to, or i when the subtree at i is a heap
heapifyMax(arr, n, i) ==
    LET left == 2 * i + 1
        right == 2 * i + 2
        m1 == IF left < n /\ At(arr, left).start > At(arr, i).start THEN left ELSE i
    IN IF right < n /\ At(arr, right).start > At(arr, m1).start THEN right ELSE m1

RECURSIVE heapify(_, _, _)
heapify(arr, n, i) ==
    LET max == heapifyMax(arr, n, i)
    IN IF max # i THEN heapify(Swap(arr, i, max), n, max) ELSE arr

\* first loop of sortAllocations: for i := n/2 - 1; i >= 0; i--
RECURSIVE buildHeap(_, _, _)
buildHeap(arr, n, i) ==
    IF i < 0 THEN arr ELSE buildHeap(heapify(arr, n, i), n, i - 1)

\* second loop of sortAllocations: for end := n - 1; end > 0; end--
RECURSIVE sortDown(_, _)
sortDown(arr, end) ==
    IF end <= 0 THEN arr ELSE sortDown(heapify(Swap(arr, 0, end), end, 0), end - 1)

\* sortAllocations on the first n slots of the buffer
sortAllocations(arr, n) == sortDown(buildHeap(arr, n, (n \div 2) - 1), n - 1)

\* mutation of unmarkAllocations: the marks are kept
unmarkAllocations_keepMarked(arr, n) ==
    [k \in 1 .. Len(arr) |->
        IF k <= n THEN [arr[k] EXCEPT !.next = 0] ELSE arr[k]]

\* mutation of unmarkAllocations: the next links are kept
unmarkAllocations_keepNext(arr, n) ==
    [k \in 1 .. Len(arr) |->
        IF k <= n THEN [arr[k] EXCEPT !.marked = FALSE] ELSE arr[k]]

\* unmarkAllocations on the first n slots
unmarkAllocations(arr, n) ==
    [k \in 1 .. Len(arr) |->
        IF k <= n THEN [arr[k] EXCEPT !.marked = FALSE, !.next = 0] ELSE arr[k]]

(* ---------------------------- binary search ---------------------------- *)

\* searchAllocations: the slot (1-based) of the record found, 0 for nil
RECURSIVE searchFrom(_, _, _, _)
searchFrom(arr, low, high, addr) ==
    IF low < high
    THEN LET mid == low + ((high - low) \div 2)
         IN IF addr < At(arr, mid).start THEN searchFrom(arr, low, mid, addr)
            ELSE IF addr > At(arr, mid).end THEN searchFrom(arr, mid + 1, high, addr)
            ELSE mid + 1
    ELSE 0

searchAllocations(arr, n, addr) == searchFrom(arr, 0, n, addr)

(* ----------------------------- mark engine ----------------------------- *)

\* mutation of mark: the test of curAlloc.marked is left out
mark_noTest(arr, n, q, addr) ==
    IF n = 0 THEN [arr |-> arr, q |-> q, ret |-> FALSE, pushed |-> 0]
    ELSE IF addr < At(arr, 0).start \/ addr > At(arr, n - 1).end
    THEN [arr |-> arr, q |-> q, ret |-> FALSE, pushed |-> 0]
    ELSE LET cur == searchAllocations(arr, n, addr)
         IN IF cur # 0
            THEN [arr |-> [arr EXCEPT ![cur].marked = TRUE, ![cur].next = q],
                  q |-> cur, ret |-> TRUE, pushed |-> cur]
            ELSE [arr |-> arr, q |-> q, ret |-> FALSE, pushed |-> 0]

\* mutation of mark: the record is pushed without being linked to the queue
mark_noLink(arr, n, q, addr) ==
    IF n = 0 THEN [arr |-> arr, q |-> q, ret |-> FALSE, pushed |-> 0]
    ELSE IF addr < At(arr, 0).start \/ addr > At(arr, n - 1).end
    THEN [arr |-> arr, q |-> q, ret |-> FALSE, pushed |-> 0]
    ELSE LET cur == searchAllocations(arr, n, addr)
         IN IF cur # 0 /\ ~arr[cur].marked
            THEN [arr |-> [arr EXCEPT ![cur].marked = TRUE],
                  q |-> cur, ret |-> TRUE, pushed |-> cur]
            ELSE [arr |-> arr, q |-> q, ret |-> FALSE, pushed |-> 0]

\* mark(addr) on registry arr[1..n] and scan-queue head q.
\* ret is the returned boolean, pushed the slot pushed by this call (0: none).
mark(arr, n, q, addr) ==
    IF n = 0 THEN [arr |-> arr, q |-> q, ret |-> FALSE, pushed |-> 0]
    ELSE IF addr < At(arr, 0).start \/ addr > At(arr, n - 1).end
    THEN [arr |-> arr, q |-> q, ret |-> FALSE, pushed |-> 0]
    ELSE LET cur == searchAllocations(arr, n, addr)
         IN IF cur # 0 /\ ~arr[cur].marked
            THEN [arr |-> [arr EXCEPT ![cur].marked = TRUE, ![cur].next = q],
                  q |-> cur, ret |-> TRUE, pushed |-> cur]
            ELSE [arr |-> arr, q |-> q, ret |-> FALSE, pushed |-> 0]

(* ------------------------------- scanner ------------------------------- *)

\* byte at address a of a memory given by its pointer-aligned words
ByteAt(words, a) ==
    LET w == words[a - (a % PtrSize)]
    IN IF a % PtrSize = 0 THEN w % ByteRadix ELSE w \div ByteRadix

\* *(*uintptr)(unsafe.Pointer(a)): little-endian load of the window at a
Load(words, a) == ByteAt(words, a) + ByteRadix * ByteAt(words, (a + 1) % AddrSpace)

\* the addresses scan(start, end) loads from, in order: the aligned loop
\* first, then the tail window ending at end
RECURSIVE scanLoop(_, _)
scanLoop(addr, end) ==
    IF (addr + PtrSize) % AddrSpace <= end
    THEN <<addr>> \o scanLoop((addr + PtrSize) % AddrSpace, end)
    ELSE <<>>

scanAddrs(start, end) ==
    LET s == (((start + PtrSize - 1) % AddrSpace) \div PtrSize) * PtrSize
    IN scanLoop(s, end)
       \o (IF end >= (s + PtrSize) % AddrSpace
           THEN <<(end + AddrSpace - PtrSize) % AddrSpace>> ELSE <<>>)

\* scan(start, end) over memory words: mark every loaded value, in order.
\* st = [arr, q, log]: registry, queue head, slots pushed so far.
RECURSIVE markAll(_, _, _, _)
markAll(st, n, words, addrs) ==
    IF addrs = <<>> THEN st
    ELSE LET r == mark(st.arr, n, st.q, Load(words, Head(addrs)))
         IN markAll([arr |-> r.arr, q |-> r.q,
                     log |-> IF r.pushed # 0 THEN Append(st.log, r.pushed) ELSE st.log],
                    n, words, Tail(addrs))

scan(st, n, words, start, end) == markAll(st, n, words, scanAddrs(start, end))

(* -------------------------------- sweep -------------------------------- *)

\* the loop of sweep() from index i on: j is the compaction index, total the
\* recomputed gcTotalAlloc, frees the addresses passed to free(), in order
\* mutation of sweepFrom: the store allocations[j] = curAlloc is left out
RECURSIVE sweepFrom_noStore(_, _, _, _, _, _)
sweepFrom_noStore(arr, n, i, j, total, frees) ==
    IF i >= n THEN [arr |-> arr, len |-> j, total |-> total, frees |-> frees]
    ELSE LET curAlloc == At(arr, i)
         IN IF ~curAlloc.marked
            THEN sweepFrom_noStore(arr, n, i + 1, j, total, Append(frees, curAlloc.start))
            ELSE sweepFrom_noStore(arr, n, i + 1, j + 1,
                                   (total + ((curAlloc.end + AddrSpace - curAlloc.start) % AddrSpace)) % Wide,
                                   frees)

RECURSIVE sweepFrom(_, _, _, _, _, _)
sweepFrom(arr, n, i, j, total, frees) ==
    IF i >= n THEN [arr |-> arr, len |-> j, total |-> total, frees |-> frees]
    ELSE LET curAlloc == At(arr, i)
         IN IF ~curAlloc.marked
            THEN sweepFrom(arr, n, i + 1, j, total, Append(frees, curAlloc.start))
            ELSE sweepFrom([arr EXCEPT ![j + 1] = curAlloc], n, i + 1, j + 1,
                           (total + ((curAlloc.end + AddrSpace - curAlloc.start) % AddrSpace)) % Wide,
                           frees)

sweep(arr, n) == sweepFrom(arr, n, 0, 0, 0, <<>>)

\* allocations = allocations[:j] leaves the slots from j on in the array.
\* Only expandAllocationsIfNeeded reads them again, when its tryGC ran the
\* cycle (cont = "a_expandNil"); on every other path they are overwritten
\* before they are read, and are kept as NoRecord.
truncate(arr, j, cont) ==
    IF cont = "a_expandNil" THEN arr
    ELSE [k \in 1 .. Len(arr) |-> IF k <= j THEN arr[k] ELSE NoRecord]

(* ---------------------------- growth control --------------------------- *)

\* mutation of addTotal: the update of gcTotalAlloc is left out
addTotal_none(total, sz) == total

\* gcTotalAlloc += uint64(size)
addTotal(total, sz) == (total + sz) % Wide

\* mutation of countFrees: gcFrees is not counted up
countFrees_none(frees, k) == frees

\* gcFrees++ of free(), k times
countFrees(frees, k) == (frees + k) % Wide

\* mutation of countMallocs: gcMallocs is not counted up
countMallocs_none(mallocs) == mallocs

\* gcMallocs++ of alloc
countMallocs(mallocs) == (mallocs + 1) % Wide

\* needGC(size) for a given gcTotalAlloc and heapUsageLimit
needGC(total, sz, limit) == (total + sz) % Wide > limit

\* the loop of adjustHeapUsageLimit
RECURSIVE growLimit(_, _, _)
growLimit(limit, total, sz) ==
    IF limit # 0 /\ ((total % AddrSpace) + sz) % AddrSpace > limit
    THEN growLimit((2 * limit) % AddrSpace, total, sz)
    ELSE limit

\* adjustHeapUsageLimit(size)
adjustHeapUsageLimit(limit, total, sz) ==
    LET l == growLimit(limit, total, sz)
    IN IF l = 0 THEN AllOnes ELSE l

(* ------------------------------- state --------------------------------- *)

VARIABLES
    gcInProgress,        \* gcInProgress
    gcMallocs,           \* gcMallocs
    gcFrees,             \* gcFrees
    gcTotalAlloc,        \* gcTotalAlloc
    heapUsageLimit,      \* heapUsageLimit
    allocations,         \* backing array of allocations, Len = cap(allocations)
    allocLen,            \* len(allocations)
    allocNil,            \* the backing array pointer of allocations is nil
    referenceScanQueue,  \* slot of the queue head, 0 for nil
    pc,                  \* position of the program
    gcRet,               \* where the running GC() returns to
    size,                \* alloc: size after the header was added
    gcRan,               \* alloc: gcRan
    hdrLen,              \* expandAllocationsIfNeeded: allocationsHeader.len
    fatal,               \* the panic helper that ended the process
    live,                \* host allocator: data regions handed out and not freed
    hostNils,            \* host allocator: nil answers given while it had room
    userFrees,           \* calls of free by the program so far
    mem,                 \* heap memory the running cycle has scanned, by aligned word
    stackMem,            \* the stack extent the running cycle has scanned
    globalsMem,          \* the globals the running cycle has scanned
    extfreeLog,          \* addresses the running cycle passed to extfree, in order
    scanLog,             \* slots finishMarking scanned in the running cycle
    pushLog,             \* slots mark pushed in the running cycle
    sortIn,              \* the records prepareGC was given, in order, until markStack runs
    reqSize,             \* the argument n of the last alloc(n)
    entryTotal,          \* gcTotalAlloc when the last alloc(n), n > 0, was called
    baseTotal,           \* entryTotal, or gcTotalAlloc as the last cycle of that call left it
    retPtr,              \* pointer returned by the last alloc, 0 before it returns
    lastOp,              \* what the last step met: nil answers of extalloc, GC() calls, ...
    gcCalls,             \* GC() calls made by the alloc call that is executing
    extallocOk,          \* extalloc calls that returned a region so far
    extfreeCalls,        \* extfree calls so far
    allocCalls,          \* alloc calls that got past the check of gcInProgress so far
    leakTotalAlloc,      \* gcTotalAlloc of the leaking variant (uint64)
    leakMallocs,         \* gcMallocs of the leaking variant (uint64)
    leakRet,             \* the address the last alloc of the leaking variant returned (0: none)
    leakCalls,           \* alloc calls of the leaking variant so far
    leakFatal            \* "none", or how the leaking variant stopped

progVars == <<gcInProgress, gcMallocs, gcFrees, gcTotalAlloc, heapUsageLimit,
              allocations, allocLen, allocNil, referenceScanQueue>>

ctlVars == <<pc, gcRet, size, gcRan, hdrLen, fatal>>

envVars == <<live, hostNils, userFrees, mem, stackMem, globalsMem>>

logVars == <<extfreeLog, scanLog, pushLog, sortIn, reqSize, entryTotal, baseTotal, retPtr>>

evVars == <<lastOp, gcCalls, extallocOk, extfreeCalls, allocCalls>>

\* the state of the leaking variant (gc_extalloc_leaking.go)
leakVars == <<leakTotalAlloc, leakMallocs, leakRet, leakCalls, leakFatal>>

vars == <<progVars, ctlVars, envVars, logVars, evVars, leakVars>>

ZeroMem == [a \in WordAddrs |-> 0]

ZeroRoot == [a \in {0} |-> 0]

Init ==
    /\ gcInProgress = FALSE
    /\ gcMallocs = 0
    /\ gcFrees = 0
    /\ gcTotalAlloc = 0
    /\ heapUsageLimit \in {(2 * p * PtrSize) % AddrSpace : p \in MinPageSize .. wasmPageSize}
    /\ allocations = <<>>
    /\ allocLen = 0
    /\ allocNil = TRUE
    /\ referenceScanQueue = 0
    /\ pc = "idle"
    /\ gcRet = "idle"
    /\ size = 0
    /\ gcRan = FALSE
    /\ hdrLen = 0
    /\ fatal = "none"
    /\ live = {}
    /\ hostNils = 0
    /\ userFrees = 0
    /\ mem = ZeroMem
    /\ stackMem = ZeroRoot
    /\ globalsMem = ZeroRoot
    /\ extfreeLog = <<>>
    /\ scanLog = <<>>
    /\ pushLog = <<>>
    /\ sortIn = <<>>
    /\ reqSize = 0
    /\ entryTotal = 0
    /\ baseTotal = 0
    /\ retPtr = 0
    /\ lastOp = {}
    /\ gcCalls = 0
    /\ extallocOk = 0
    /\ extfreeCalls = 0
    /\ allocCalls = 0
    /\ leakTotalAlloc = 0
    /\ leakMallocs = 0
    /\ leakRet = 0
    /\ leakCalls = 0
    /\ leakFatal = "none"

(* --------------------------- host allocator ---------------------------- *)

\* the regions [a, a + sz) extalloc(sz) may return: pointer-aligned, inside
\* the heap, overlapping no region handed out and not freed
FreeStarts(lv, sz) ==
    {a \in WordAddrs :
        /\ a >= HeapLo
        /\ a + sz <= HeapHi
        /\ \A r \in lv : a + sz <= r.start \/ r.end <= a}

\* the bytes the host allocator reserves for extalloc(sz): a request of zero
\* bytes gets a region of its own
hostSize(sz) == IF sz = 0 THEN 1 ELSE sz

\* extfree(p) on the outstanding regions
extfree(lv, p) == {r \in lv : r.start # p}

RECURSIVE extfreeAll(_, _)
extfreeAll(lv, ps) ==
    IF ps = <<>> THEN lv ELSE extfreeAll(extfree(lv, Head(ps)), Tail(ps))

(* ------------------------ memory seen by a cycle ----------------------- *)

\* Memory does not change during a cycle (nothing else runs), and before the
\* cycle the program may have stored anything: the content of a range is
\* drawn when the cycle first scans it and kept until the sweep.  The stack
\* and the globals are scanned alike, so a lone root pointer is on the stack.

\* the values the stack word may hold: zero, or a pointer to the start or to
\* the end of a registered region
StackVals(arr, n) == {0} \cup UNION {{arr[k].start, arr[k].end} : k \in 1 .. n}

\* the values a word of the globals or of the heap may hold: zero, or a
\* pointer to a registered region
HeapVals(arr, n) == {0} \cup {arr[k].start : k \in 1 .. n}

\* the aligned words that lie in [start, end)
WordsOf(start, end) == {a \in WordAddrs : start <= a /\ a + PtrSize <= end}

\* the aligned words of the ranges finishMarking has scanned (slots in done)
Known(arr, done) ==
    UNION {WordsOf(arr[done[i]].start, arr[done[i]].end) : i \in 1 .. Len(done)}

NonZero(words) == Cardinality({a \in DOMAIN words : words[a] # 0})

\* the memories that agree with words outside locs, hold values of vals in
\* locs and at most budget non-zero words more than words does
Refine(words, locs, vals, budget) ==
    {w \in {[a \in DOMAIN words |-> IF a \in locs THEN f[a] ELSE words[a]] :
                f \in [locs -> vals]} :
        NonZero(w) <= NonZero(words) + budget}

(* ------------------------------- GC() ---------------------------------- *)

\* the panic helpers end the process
Panic(reason) ==
    /\ pc' = "panic"
    /\ fatal' = reason
    /\ lastOp' = {}
    /\ UNCHANGED <<progVars, gcRet, size, gcRan, hdrLen, envVars, logVars, gcCalls, extallocOk, extfreeCalls, allocCalls>>

\* mutation of tryGCRan: *gcRan is not set
tryGCRan_never(cont) == FALSE

\* "*gcRan = true" of tryGC once GC() has returned: cont is where GC() returns
\* to, "idle" when the program called it and not tryGC
tryGCRan(cont) == cont # "idle"

\* mutation of heapEmpty: the early return of GC() is left out
heapEmpty_never(n) == FALSE

\* "if len(allocations) == 0" of GC()
heapEmpty(n) == n = 0

\* GC() from its first line to the end of prepareGC(), called with
\* gcInProgress false on the registry buffer buf; cont is where it returns to.
\* On an empty registry it returns at once.
\* Sets allocations, referenceScanQueue, gcInProgress, pc, gcRet, gcRan, the
\* memories and the logs of the cycle, gcCalls and lastOp (ops is what the
\* step met before the call).
GCEnter(buf, n, cont, ops) ==
    /\ gcCalls' = IF cont = "idle" THEN 0 ELSE gcCalls + 1
    /\ lastOp' = ops \cup {IF heapEmpty(n) THEN "gcEmpty" ELSE "gcStart"}
    /\ IF heapEmpty(n)
       THEN /\ allocations' = buf
            /\ gcInProgress' = FALSE
            /\ pc' = cont
            /\ gcRan' = tryGCRan(cont)
            /\ UNCHANGED <<referenceScanQueue, gcRet, mem, stackMem, globalsMem,
                           extfreeLog, scanLog, pushLog, sortIn>>
       ELSE LET prepared == unmarkAllocations(sortAllocations(buf, n), n)
            IN /\ allocations' = prepared
               /\ referenceScanQueue' = 0
               /\ gcInProgress' = TRUE
               /\ pc' = "gc_markStack"
               /\ gcRet' = cont
               /\ gcRan' = gcRan
               /\ mem' = ZeroMem
               /\ stackMem' = ZeroRoot
               /\ globalsMem' = ZeroRoot
               /\ extfreeLog' = <<>>
               /\ scanLog' = <<>>
               /\ pushLog' = <<>>
               /\ sortIn' = [k \in 1 .. n |-> <<buf[k].start, buf[k].end>>]

\* mutation of reentered: the check is left out
reentered_never == FALSE

\* "if gcInProgress" at the head of alloc and of GC
reentered == gcInProgress

\* the program, or a hook running inside markStack / findGlobals, calls GC()
CallGC ==
    /\ pc \in {"idle", "gc_markStack", "gc_findGlobals"}
    /\ IF reentered
       THEN Panic("gcRunningPanic")
       ELSE /\ GCEnter(allocations, allocLen, "idle", {})
            /\ retPtr' = 0
            /\ reqSize' = 0
            /\ entryTotal' = 0
            /\ baseTotal' = 0
            /\ UNCHANGED <<gcMallocs, gcFrees, gcTotalAlloc, heapUsageLimit, allocLen,
                           allocNil, size, hdrLen, fatal, live, hostNils, userFrees,
                           extallocOk, extfreeCalls, allocCalls>>
    /\ UNCHANGED leakVars

\* markStack(): markRoots on the stack extent
MarkStack ==
    /\ pc = "gc_markStack"
    /\ stackMem' \in Refine(stackMem, {0}, StackVals(allocations, allocLen), MaxPtrs)
    /\ LET st == scan([arr |-> allocations, q |-> referenceScanQueue, log |-> pushLog],
                      allocLen, stackMem', 0, RootSize)
       IN /\ allocations' = st.arr
          /\ referenceScanQueue' = st.q
          /\ pushLog' = st.log
    /\ sortIn' = <<>>
    /\ pc' = "gc_findGlobals"
    /\ UNCHANGED <<gcInProgress, gcMallocs, gcFrees, gcTotalAlloc, heapUsageLimit,
                   allocLen, allocNil, gcRet, size, gcRan, hdrLen, fatal, live, hostNils, userFrees,
                   mem, globalsMem, extfreeLog, scanLog, reqSize, entryTotal, baseTotal, retPtr,
                   gcCalls, extallocOk, extfreeCalls, allocCalls>>
    /\ lastOp' = {}
    /\ UNCHANGED leakVars

\* findGlobals(markRoots): markRoots on the globals
FindGlobals ==
    /\ pc = "gc_findGlobals"
    /\ globalsMem' \in Refine(globalsMem, {0}, HeapVals(allocations, allocLen),
                              IF NonZero(stackMem) = 0 THEN 0
                              ELSE MaxPtrs - NonZero(stackMem))
    /\ LET st == scan([arr |-> allocations, q |-> referenceScanQueue, log |-> pushLog],
                      allocLen, globalsMem', 0, RootSize)
       IN /\ allocations' = st.arr
          /\ referenceScanQueue' = st.q
          /\ pushLog' = st.log
    /\ pc' = "gc_drain"
    /\ sortIn' = sortIn
    /\ UNCHANGED <<gcInProgress, gcMallocs, gcFrees, gcTotalAlloc, heapUsageLimit,
                   allocLen, allocNil, gcRet, size, gcRan, hdrLen, fatal, live, hostNils, userFrees,
                   mem, stackMem, extfreeLog, scanLog, reqSize, entryTotal, baseTotal, retPtr,
                   gcCalls, extallocOk, extfreeCalls, allocCalls>>
    /\ lastOp' = {}
    /\ UNCHANGED leakVars

\* mutation of queueEmpty: the loop of finishMarking() is left at once
queueEmpty_always(q) == TRUE

\* the loop of finishMarking() ends: referenceScanQueue is nil
queueEmpty(q) == q = 0

\* mutation of finishMarkingStep: the queue head is not advanced before the scan
finishMarkingStep_noPop(arr, n, q, log, words) ==
    LET curAlloc == arr[q]
    IN scan([arr |-> arr, q |-> q, log |-> log], n, words, curAlloc.start, curAlloc.end)

\* one iteration of the loop of finishMarking()
finishMarkingStep(arr, n, q, log, words) ==
    LET curAlloc == arr[q]
    IN scan([arr |-> arr, q |-> curAlloc.next, log |-> log], n, words,
            curAlloc.start, curAlloc.end)

FinishMarking ==
    /\ pc = "gc_drain"
    /\ referenceScanQueue # 0
    /\ ~queueEmpty(referenceScanQueue)
    /\ LET curAlloc == allocations[referenceScanQueue]
       IN mem' \in Refine(mem, WordsOf(curAlloc.start, curAlloc.end)
                                   \ Known(allocations, scanLog),
                          HeapVals(allocations, allocLen),
                          IF NonZero(globalsMem) # 0 THEN 0
                          ELSE MaxPtrs - NonZero(stackMem) - NonZero(mem))
    /\ LET st == finishMarkingStep(allocations, allocLen, referenceScanQueue, pushLog, mem')
       IN /\ allocations' = st.arr
          /\ referenceScanQueue' = st.q
          /\ pushLog' = st.log
    /\ scanLog' = Append(scanLog, referenceScanQueue)
    /\ sortIn' = sortIn
    /\ UNCHANGED <<gcInProgress, gcMallocs, gcFrees, gcTotalAlloc, heapUsageLimit,
                   allocLen, allocNil, ctlVars, live, hostNils, userFrees, stackMem, globalsMem,
                   extfreeLog, reqSize, entryTotal, baseTotal, retPtr, gcCalls, extallocOk, extfreeCalls, allocCalls>>
    /\ lastOp' = {}
    /\ UNCHANGED leakVars

\* sweep(), once finishMarking() has left the queue empty
Sweep ==
    /\ pc = "gc_drain"
    /\ queueEmpty(referenceScanQueue)
    /\ LET sw == sweep(allocations, allocLen)
       IN /\ allocations' = truncate(sw.arr, sw.len, gcRet)
          /\ allocLen' = sw.len
          /\ gcTotalAlloc' = sw.total
          /\ gcFrees' = countFrees(gcFrees, Len(sw.frees))
          /\ extfreeCalls' = extfreeCalls + Len(sw.frees)
          /\ live' = extfreeAll(live, sw.frees)
          /\ extfreeLog' = sw.frees
          /\ baseTotal' = IF gcRet # "idle" THEN sw.total ELSE baseTotal
    /\ pc' = "gc_swept"
    /\ mem' = ZeroMem
    /\ stackMem' = ZeroRoot
    /\ globalsMem' = ZeroRoot
    /\ scanLog' = <<>>
    /\ pushLog' = <<>>
    /\ sortIn' = sortIn
    /\ UNCHANGED <<gcInProgress, gcMallocs, heapUsageLimit, allocNil, referenceScanQueue,
                   gcRet, size, gcRan, hdrLen, fatal, hostNils, userFrees, reqSize, entryTotal,
                   retPtr, gcCalls, extallocOk, allocCalls>>
    /\ lastOp' = {}
    /\ UNCHANGED leakVars

\* gcInProgress = false, and GC() returns: to the program, or into tryGC,
\* which sets *gcRan
GCReturn ==
    /\ pc = "gc_swept"
    /\ gcInProgress' = FALSE
    /\ pc' = gcRet
    /\ gcRet' = "idle"
    /\ gcRan' = tryGCRan(gcRet)
    /\ extfreeLog' = <<>>
    /\ lastOp' = {}
    /\ UNCHANGED <<mem, stackMem, globalsMem, scanLog, pushLog, sortIn, gcMallocs, gcFrees,
                   gcTotalAlloc, heapUsageLimit, allocations,
                   allocLen, allocNil, referenceScanQueue, size, hdrLen, fatal, live,
                   hostNils, userFrees, reqSize, entryTotal, baseTotal, retPtr,
                   gcCalls, extallocOk, extfreeCalls, allocCalls>>
    /\ UNCHANGED leakVars

(* ----------------------------- free(ptr) ------------------------------- *)

\* the program frees a pointer alloc has returned: a region it holds, or
\* the address of zeroSizedAlloc
CallFree(p) ==
    /\ pc = "idle"
    /\ (\E r \in live : r.start = p) \/ p = SentinelAddr
    /\ userFrees < MaxUserFrees
    /\ userFrees' = userFrees + 1
    /\ gcFrees' = countFrees(gcFrees, 1)
    /\ extfreeCalls' = extfreeCalls + 1
    /\ live' = extfree(live, p)
    /\ retPtr' = 0
    /\ reqSize' = 0
    /\ entryTotal' = 0
    /\ baseTotal' = 0
    /\ UNCHANGED <<gcInProgress, gcMallocs, gcTotalAlloc, heapUsageLimit, allocations,
                   allocLen, allocNil, referenceScanQueue, ctlVars, hostNils, mem,
                   stackMem, globalsMem, extfreeLog, scanLog, pushLog, sortIn, extallocOk, allocCalls>>
    /\ lastOp' = {"free"}
    /\ gcCalls' = 0
    /\ UNCHANGED leakVars

(* ---------------------------- alloc(size) ------------------------------ *)

\* the new backing array of expandAllocationsIfNeeded: newCap slots, the
\* first n copied by copyAllocations from the old array
copyAllocations(old, n, newCap) ==
    [k \in 1 .. newCap |-> IF k <= n THEN old[k] ELSE NoRecord]

\* appendAllocations(header, entry)
appendAllocations(buf, n, entry) == [buf EXCEPT ![n + 1] = entry]

\* mutation of isNil: the test of ptr is left out
isNil_never(ptr) == FALSE

\* "if ptr == nil" after extalloc
isNil(ptr) == ptr = 0

\* alloc from "ptr := extalloc(size)" on (lines 98-116).  buf, n and nilp are
\* allocations, its length and whether its array is nil as
\* expandAllocationsIfNeeded left them; frees is the number of calls of free
\* and oks the number of regions extalloc returned earlier in the step; ran
\* is gcRan, nils is hostNils.  The host allocator answers nil or any free
\* region.
AllocData(buf, n, nilp, frees, ran, nils, oks) ==
    \E ptr \in {0} \cup FreeStarts(live, hostSize(size)) :
        /\ ptr = 0 => (FreeStarts(live, hostSize(size)) = {} \/ nils < MaxNils)
        /\ hostNils' = IF ptr = 0 /\ FreeStarts(live, hostSize(size)) # {} THEN nils + 1 ELSE nils
        /\ allocNil' = nilp
        /\ gcFrees' = countFrees(gcFrees, frees)
        /\ extfreeCalls' = extfreeCalls + frees
        /\ UNCHANGED <<gcMallocs, heapUsageLimit, userFrees, allocCalls>>
        /\ IF isNil(ptr)
           THEN IF ran
                THEN /\ pc' = "panic"
                     /\ fatal' = "gcAllocPanic"
                     /\ allocations' = buf
                     /\ allocLen' = n
                     /\ lastOp' = {"nilData"}
                     /\ extallocOk' = extallocOk + oks
                     /\ UNCHANGED <<gcInProgress, gcTotalAlloc, referenceScanQueue, gcRet,
                                    size, gcRan, hdrLen, live, mem, stackMem, globalsMem,
                                    logVars, gcCalls>>
                ELSE /\ GCEnter(buf, n, "a_loop", {"nilData"})
                     /\ allocLen' = n
                     /\ extallocOk' = extallocOk + oks
                     /\ UNCHANGED <<gcTotalAlloc, size, hdrLen, fatal, live, reqSize, entryTotal,
                                    baseTotal, retPtr>>
           ELSE /\ allocations' = appendAllocations(buf, n, newHeapAllocation(ptr, size))
                /\ allocLen' = n + 1
                /\ gcTotalAlloc' = addTotal(gcTotalAlloc, size)
                /\ live' = live \cup {[start |-> ptr, end |-> ptr + hostSize(size)]}
                /\ retPtr' = ptr
                /\ pc' = "idle"
                /\ size' = 0
                /\ gcRan' = FALSE
                /\ hdrLen' = 0
                /\ lastOp' = {}
                /\ gcCalls' = 0
                /\ extallocOk' = extallocOk + oks + 1
                /\ UNCHANGED <<gcInProgress, referenceScanQueue, gcRet, fatal, mem,
                               stackMem, globalsMem, extfreeLog, scanLog, pushLog, sortIn,
                               reqSize, entryTotal, baseTotal>>

\* mutation of zeroSized: the early return is left out
zeroSized_never(n) == FALSE

\* "if size == 0" of alloc
zeroSized(n) == n = 0

\* alloc(size, layout) up to the loop (lines 65-83), called by the program
\* or by a hook running inside markStack / findGlobals
CallAlloc(n) ==
    /\ pc \in {"idle", "gc_markStack", "gc_findGlobals"}
    /\ IF reentered
       THEN Panic("gcRunningPanic")
       ELSE /\ allocCalls < MaxMallocs
            /\ gcMallocs' = countMallocs(gcMallocs)
            /\ allocCalls' = allocCalls + 1
            /\ IF zeroSized(n)
               THEN /\ retPtr' = SentinelAddr
                    /\ reqSize' = 0
                    /\ entryTotal' = 0
                    /\ baseTotal' = 0
                    /\ UNCHANGED <<pc, size, gcRan>>
               ELSE /\ retPtr' = 0
                    /\ size' = (n + align(PtrSize)) % AddrSpace
                    /\ gcRan' = FALSE
                    /\ reqSize' = n
                    /\ entryTotal' = gcTotalAlloc
                    /\ baseTotal' = gcTotalAlloc
                    /\ pc' = "a_loop"
            /\ lastOp' = {}
            /\ gcCalls' = 0
            /\ UNCHANGED <<gcInProgress, gcFrees, gcTotalAlloc, heapUsageLimit,
                           allocations, allocLen, allocNil, referenceScanQueue, gcRet,
                           hdrLen, fatal, envVars, extfreeLog, scanLog, pushLog, sortIn,
                           extallocOk, extfreeCalls>>
    /\ UNCHANGED leakVars

\* one iteration of the loop of alloc (lines 84-117), with
\* expandAllocationsIfNeeded up to its call of tryGC
AllocLoop ==
    /\ pc = "a_loop"
    /\ IF needGC(gcTotalAlloc, size, heapUsageLimit)
       THEN IF gcRan
            THEN /\ heapUsageLimit' = adjustHeapUsageLimit(heapUsageLimit, gcTotalAlloc, size)
                 /\ lastOp' = {"grow"}
                 /\ UNCHANGED <<gcInProgress, gcMallocs, gcFrees, gcTotalAlloc, allocations,
                                allocLen, allocNil, referenceScanQueue, ctlVars, envVars,
                                logVars, gcCalls, extallocOk, extfreeCalls, allocCalls>>
            ELSE /\ GCEnter(allocations, allocLen, "a_loop", {})
                 /\ UNCHANGED <<gcMallocs, gcFrees, gcTotalAlloc, heapUsageLimit, allocLen,
                                allocNil, size, hdrLen, fatal, live, hostNils, userFrees,
                                reqSize, entryTotal, baseTotal, retPtr, extallocOk, extfreeCalls, allocCalls>>
       ELSE IF allocLen = Len(allocations)
            THEN \E ok \in BOOLEAN :
                    IF ok
                    THEN AllocData(copyAllocations(allocations, allocLen,
                                                   double(Len(allocations))),
                                   allocLen, FALSE,
                                   IF Len(allocations) # 0 THEN 1 ELSE 0,
                                   gcRan, hostNils, 1)
                    ELSE /\ hostNils < MaxNils
                         /\ hostNils' = hostNils + 1
                         /\ userFrees' = userFrees
                         /\ IF gcRan
                            THEN /\ pc' = "panic"
                                 /\ fatal' = "gcAllocPanic"
                                 /\ lastOp' = {"nilBuffer"}
                                 /\ UNCHANGED <<progVars, gcRet, size, gcRan, hdrLen, live,
                                                mem, stackMem, globalsMem, logVars,
                                                gcCalls, extallocOk, extfreeCalls, allocCalls>>
                            ELSE /\ GCEnter(allocations, allocLen, "a_expandNil", {"nilBuffer"})
                                 /\ hdrLen' = allocLen
                                 /\ UNCHANGED <<gcMallocs, gcFrees, gcTotalAlloc,
                                                heapUsageLimit, allocLen, allocNil, size,
                                                fatal, live, reqSize, entryTotal, baseTotal,
                                                retPtr, extallocOk, extfreeCalls, allocCalls>>
            ELSE AllocData(allocations, allocLen, allocNil, 0, gcRan, hostNils, 0)
    /\ UNCHANGED leakVars

\* expandAllocationsIfNeeded after its tryGC ran GC() (lines 261-274): ptr
\* is still nil and allocationsHeader is the copy taken before the cycle;
\* then alloc goes on to extalloc(size).  The registry now lives at address
\* zero: the stores into it succeed where that address is memory (wasm) and
\* fault elsewhere.
AllocExpandNil ==
    /\ pc = "a_expandNil"
    /\ \/ AllocData(copyAllocations(allocations, hdrLen, double(Len(allocations))),
                    hdrLen, TRUE,
                    IF Len(allocations) # 0 THEN 1 ELSE 0,
                    TRUE, hostNils, 0)
       \/ /\ pc' = "panic"
          /\ fatal' = "nilStore"
          /\ lastOp' = {}
          /\ UNCHANGED <<progVars, gcRet, size, gcRan, hdrLen, envVars, logVars,
                         gcCalls, extallocOk, extfreeCalls, allocCalls>>
    /\ UNCHANGED leakVars

(* ---------------------------- specification ---------------------------- *)

Next ==
    \/ \E n \in Sizes : CallAlloc(n)
    \/ AllocLoop
    \/ AllocExpandNil
    \/ \E p \in Addr : CallFree(p)
    \/ CallGC
    \/ MarkStack
    \/ FindGlobals
    \/ FinishMarking
    \/ Sweep
    \/ GCReturn

Spec == Init /\ [][Next]_vars

(* ------------------------------ properties ----------------------------- *)

\* the step in which sweep() runs
SweepStep == pc = "gc_drain" /\ pc' = "gc_swept"

\* the registry arr[1..n] as a sequence
Registry(arr, n) == SubSeq(arr, 1, n)

IsMarked(r) == r.marked

IsUnmarked(r) == ~r.marked

\* the values held by the pointer-aligned words of the roots
RootValues == {stackMem[a] : a \in DOMAIN stackMem} \cup {globalsMem[a] : a \in DOMAIN globalsMem}

\* the values held by the pointer-aligned words in the range of record r
HeldBy(r) == {mem[a] : a \in WordsOf(r.start, r.end)}

\* the values held by the roots and by the records that survive the cycle
\* (those marked when the sweep starts)
ReferencedValues ==
    RootValues \cup UNION {HeldBy(allocations[k]) : k \in {i \in 1 .. allocLen : allocations[i].marked}}

\* record r is in the registry after the step and was not passed to extfree
SurvivesStep(r) ==
    /\ \E j \in 1 .. allocLen' : allocations'[j].start = r.start /\ allocations'[j].end = r.end
    /\ \A i \in 1 .. Len(extfreeLog') : extfreeLog'[i] # r.start

\* C1: in every cycle, a record for which a pointer-aligned word of a root
\* range, or of the range of a record that survives the cycle, holds a value v
\* with start <= v <= end is still in the registry after the sweep, and
\* extfree was not called on its start.
C1_ReachableSurvivesAny ==
    [][SweepStep =>
        \A k \in 1 .. allocLen :
            (\E v \in ReferencedValues : allocations[k].start <= v /\ v <= allocations[k].end)
                => SurvivesStep(allocations[k])]_vars

\* C1, for the pointers to the start of a region (v = start) in the traces
\* in which free was never called and the host allocator never answered nil
\* while it had room: the record survives the cycle.
C1_ReachableSurvives ==
    [][(SweepStep /\ userFrees = 0 /\ hostNils = 0) =>
        \A k \in 1 .. allocLen :
            allocations[k].start \in ReferencedValues => SurvivesStep(allocations[k])]_vars

\* C2: sweep() leaves in the registry exactly the records that were marked at
\* the end of the drain, in their order, with the length cut to their count,
\* and calls extfree(start) once for each unmarked record, in index order, and
\* for no marked record.
C2_SweepKeepsMarked ==
    [][SweepStep =>
        LET kept == SelectSeq(Registry(allocations, allocLen), IsMarked)
            dropped == SelectSeq(Registry(allocations, allocLen), IsUnmarked)
        IN /\ allocLen' = Len(kept)
           /\ Registry(allocations', allocLen') = kept
           /\ extfreeLog' = [i \in 1 .. Len(dropped) |-> dropped[i].start]]_vars

\* C2 witness: a sweep has kept two records and freed another
C2_Witness == pc = "gc_swept" /\ allocLen >= 2 /\ Len(extfreeLog) >= 1

\* C3: alloc(0) returns the sentinel address and leaves the registry and
\* gcTotalAlloc alone; an alloc(n) with n > 0 never returns the sentinel
\* address; no record of the registry starts at the sentinel address.
C3_Sentinel ==
    [][/\ (CallAlloc(0) /\ ~gcInProgress) =>
            /\ retPtr' = SentinelAddr
            /\ UNCHANGED <<allocations, allocLen, gcTotalAlloc>>
       /\ retPtr' = SentinelAddr => reqSize' = 0
       /\ \A k \in 1 .. allocLen' : allocations'[k].start # SentinelAddr]_vars

\* C3 witness: alloc(0) has returned the sentinel while the registry holds a record
C3_Witness == pc = "idle" /\ retPtr = SentinelAddr /\ allocLen >= 1

\* C4: while gcInProgress is true, a call of alloc (any size) or of GC() ends
\* in gcRunningPanic and changes neither the registry nor gcMallocs,
\* gcTotalAlloc or heapUsageLimit.
C4_Reentry ==
    [][(gcInProgress /\ ((\E n \in Sizes : CallAlloc(n)) \/ CallGC)) =>
            /\ pc' = "panic"
            /\ fatal' = "gcRunningPanic"
            /\ UNCHANGED <<allocations, allocLen, gcMallocs, gcTotalAlloc, heapUsageLimit>>]_vars

\* C4 witness: a call made from a hook of a running cycle has ended in gcRunningPanic
C4_Witness == pc = "panic" /\ fatal = "gcRunningPanic" /\ gcInProgress /\ allocLen >= 1

\* the step in which alloc(n), n > 0, returns its pointer
AllocReturns == pc \in {"a_loop", "a_expandNil"} /\ pc' = "idle"

RECURSIVE SumSizes(_, _)
SumSizes(arr, n) ==
    IF n = 0 THEN 0
    ELSE SumSizes(arr, n - 1) + ((arr[n].end + AddrSpace - arr[n].start) % AddrSpace)

\* C6: whenever no alloc or GC call is executing, and right after sweep,
\* gcTotalAlloc is the sum of end - start over the records of the registry.
C6_TotalIsSum ==
    pc \in {"idle", "gc_swept"} => gcTotalAlloc = SumSizes(allocations, allocLen) % Wide

\* the mark phase of a cycle: from the end of prepareGC() to the sweep
MarkPhase == pc \in {"gc_markStack", "gc_findGlobals", "gc_drain"}

\* the registry arr[1..n] is sorted by start, ascending
Sorted(arr, n) == \A i \in 1 .. n - 1 : arr[i].start <= arr[i + 1].start

\* the number of records of arr[1..n] with the range rg = <<start, end>>
CountOf(arr, n, rg) == Cardinality({k \in 1 .. n : <<arr[k].start, arr[k].end>> = rg})

\* C7: right after prepareGC() the registry is a permutation of the records
\* it held before the sort, and it is sorted by start, ascending, then and for
\* the rest of the mark phase.
C7_SortedPermutation ==
    /\ MarkPhase => Sorted(allocations, allocLen)
    /\ pc = "gc_markStack" =>
        /\ Len(sortIn) = allocLen
        /\ \A k \in 1 .. allocLen :
            /\ CountOf(allocations, allocLen, sortIn[k])
                   = Cardinality({i \in 1 .. allocLen : sortIn[i] = sortIn[k]})
            /\ CountOf(allocations, allocLen, <<allocations[k].start, allocations[k].end>>)
                   = Cardinality({i \in 1 .. allocLen :
                                     sortIn[i] = <<allocations[k].start, allocations[k].end>>})

\* C7 witness: prepareGC() has sorted a registry of three records that the
\* allocs had appended out of address order
C7_Witness ==
    /\ pc = "gc_markStack"
    /\ allocLen = 3
    /\ \E i \in 1 .. 2 : sortIn[i][1] > sortIn[i + 1][1]

\* adjacent records of the registry arr[1..n] do not overlap
Disjoint(arr, n) == \A i \in 1 .. n - 1 : arr[i].end <= arr[i + 1].start

\* C8: right after prepareGC() every pair of adjacent registry records
\* satisfies r_i.end <= r_{i+1}.start, also after a free(p) followed by an
\* alloc for which the host recycles the address p (here for the traces in
\* which the host allocator never answered nil while it had room).
C8_DisjointAfterPrepare ==
    (pc = "gc_markStack" /\ hostNils = 0) => Disjoint(allocations, allocLen)

\* the outcome of mark(addr) in the current state
MarkOutcome(addr) == mark(allocations, allocLen, referenceScanQueue, addr)

\* the records mark(addr), with outcome r, has changed from unmarked to marked
NewlyMarked(r) == {k \in 1 .. allocLen : ~allocations[k].marked /\ r.arr[k].marked}

\* mark returns true iff the call changed a record from unmarked to marked;
\* such a call marks and pushes that one record and touches no other, and a
\* call that returns false changes nothing
MarkReturnsChange ==
    \A addr \in Addr :
        LET r == MarkOutcome(addr)
        IN /\ r.ret <=> NewlyMarked(r) # {}
           /\ ~r.ret => r.arr = allocations /\ r.q = referenceScanQueue
           /\ r.ret => /\ NewlyMarked(r) = {r.pushed}
                       /\ r.q = r.pushed
                       /\ \A k \in 1 .. allocLen : k # r.pushed => r.arr[k] = allocations[k]

\* over the mark calls made so far in the cycle every marked record was
\* marked and pushed once
MarkedOnce ==
    /\ \A i, j \in 1 .. Len(pushLog) : i # j => pushLog[i] # pushLog[j]
    /\ {pushLog[i] : i \in 1 .. Len(pushLog)} = {k \in 1 .. allocLen : allocations[k].marked}

\* C9: in the mark phase, mark(addr) returns true iff it changed a record
\* from unmarked to marked, every record is marked and pushed at most once,
\* and mark on an address contained in an already-marked record
\* (start <= addr <= end) changes no state.
C9_MarkContained ==
    MarkPhase =>
        /\ MarkReturnsChange
        /\ MarkedOnce
        /\ \A addr \in Addr :
            (\E k \in 1 .. allocLen :
                /\ allocations[k].marked
                /\ allocations[k].start <= addr
                /\ addr <= allocations[k].end)
              => MarkOutcome(addr).arr = allocations /\ MarkOutcome(addr).q = referenceScanQueue

\* C9, amended: as C9, with the last part for the addresses that
\* searchAllocations resolves to an already-marked record.
C9_MarkIdempotent ==
    MarkPhase =>
        /\ MarkReturnsChange
        /\ MarkedOnce
        /\ \A addr \in Addr :
            LET cur == searchAllocations(allocations, allocLen, addr)
                r == MarkOutcome(addr)
            IN (cur # 0 /\ allocations[cur].marked)
                 => r.arr = allocations /\ r.q = referenceScanQueue

\* C9 witness: both roots held the same pointer, so mark was called twice on
\* the address of one record, which was pushed once
C9_Witness ==
    /\ pc = "gc_drain"
    /\ stackMem[0] # 0
    /\ globalsMem[0] = stackMem[0]
    /\ Len(pushLog) = 1
    /\ allocLen >= 2

\* C10: finishMarking() scans no record twice and only marked records, so it
\* ends after at most len(allocations) iterations; when it ends the scan
\* queue is empty and every marked record has been scanned exactly once.
C10_DrainTerminates ==
    pc = "gc_drain" =>
        /\ referenceScanQueue \in 0 .. allocLen
        /\ \A i \in 1 .. Len(scanLog) :
            scanLog[i] \in 1 .. allocLen /\ allocations[scanLog[i]].marked
        /\ \A i, j \in 1 .. Len(scanLog) :
            i # j => /\ scanLog[i] # scanLog[j]
                     /\ <<allocations[scanLog[i]].start, allocations[scanLog[i]].end>>
                            # <<allocations[scanLog[j]].start, allocations[scanLog[j]].end>>
        /\ Len(scanLog) <= allocLen
        /\ referenceScanQueue = 0 =>
            {scanLog[i] : i \in 1 .. Len(scanLog)} = {k \in 1 .. allocLen : allocations[k].marked}

\* C10 witness: the drain has ended on two records that point to each other
C10_Witness ==
    /\ pc = "gc_drain"
    /\ referenceScanQueue = 0
    /\ \E a, b \in 1 .. allocLen :
        /\ a # b
        /\ allocations[a].marked /\ allocations[b].marked
        /\ allocations[b].start \in HeldBy(allocations[a])
        /\ allocations[a].start \in HeldBy(allocations[b])

\* C11: within one alloc call GC() is called at most once, whichever of the
\* limit check, the registry-capacity step and the data extalloc step asks
\* for it, and heapUsageLimit changes only in an alloc call in which GC() has
\* already been called and has returned.
C11_CollectOnceThenGrow ==
    [][/\ gcCalls' <= 1
       /\ heapUsageLimit' # heapUsageLimit =>
            /\ pc = "a_loop"
            /\ gcCalls = 1
            /\ gcRan
            /\ ~gcInProgress]_vars

\* C11 witness: alloc has grown the limit after the one cycle of the call,
\* which kept every record
C11_Witness ==
    /\ pc = "a_loop"
    /\ lastOp = {"grow"}
    /\ gcCalls = 1
    /\ allocLen >= 2

\* d is a power of two
RECURSIVE IsPowerOfTwo(_)
IsPowerOfTwo(d) == d = 1 \/ (d > 1 /\ d % 2 = 0 /\ IsPowerOfTwo(d \div 2))

\* the multiples limit * 2^k that fit a word and admit need bytes
Admitting(limit, need) ==
    {limit * d : d \in {e \in 1 .. AddrSpace : IsPowerOfTwo(e)}}
        \cap {m \in 1 .. AllOnes : need <= m}

\* the least element of a non-empty set of numbers
Least(S) == CHOOSE m \in S : \A x \in S : m <= x

\* the limit the claim asks for: the old limit times the smallest power of
\* two that admits need, all-ones when no such multiple fits a word
GrownLimit(limit, need) ==
    IF Admitting(limit, need) # {} THEN Least(Admitting(limit, need)) ELSE AllOnes

\* C12: once the GC() of an alloc call has run, an iteration that finds
\* gcTotalAlloc + size above heapUsageLimit sets the limit to the old limit
\* times the smallest power of two that admits gcTotalAlloc + size, or to
\* all-ones when the doubling wraps to zero, and an iteration that finds it
\* admitted leaves the limit unchanged; heapUsageLimit never decreases.
C12_LimitGrowth ==
    [][/\ heapUsageLimit' >= heapUsageLimit
       /\ (pc = "a_loop" /\ gcRan) =>
            heapUsageLimit' =
                IF gcTotalAlloc + size > heapUsageLimit
                THEN GrownLimit(heapUsageLimit, gcTotalAlloc + size)
                ELSE heapUsageLimit]_vars

\* the step in which alloc(n), n > 0, has got nil from extalloc(size)
DataNil == "nilData" \in lastOp'

\* the step calls GC() from alloc, and alloc goes on at the top of its loop
\* when GC() returns
RestartsAfterGC ==
    /\ gcCalls' = gcCalls + 1
    /\ \/ pc' = "a_loop" /\ gcRan' /\ "gcEmpty" \in lastOp'
       \/ pc' = "gc_markStack" /\ gcRet' = "a_loop" /\ "gcStart" \in lastOp'

\* the step ends alloc in the out-of-memory fatal
OutOfMemory == pc' = "panic" /\ fatal' = "gcAllocPanic"

\* C14: when extalloc returns nil for the data request of alloc(n), alloc
\* calls GC() once and restarts its loop from the top if no GC() has run in
\* this call, and ends in gcAllocPanic if one has; alloc never returns nil and
\* never appends a record whose start is nil.
C14_DataNil ==
    [][/\ DataNil => IF gcRan THEN OutOfMemory ELSE RestartsAfterGC /\ gcCalls = 0
       /\ AllocReturns =>
            /\ retPtr' # 0
            /\ allocLen' >= 1
            /\ allocations'[allocLen'].start = retPtr'
       /\ \A k \in 1 .. allocLen' : allocations'[k].start # 0]_vars

\* C14 witness: extalloc answered nil for the data of an alloc that had run
\* no cycle, and GC() has started on a registry that is not empty
C14_Witness ==
    /\ lastOp = {"nilData", "gcStart"}
    /\ pc = "gc_markStack"
    /\ gcRet = "a_loop"
    /\ gcCalls = 1

\* the step in which expandAllocationsIfNeeded has got nil from extalloc
BufferNil == "nilBuffer" \in lastOp'

\* C15: when the registry is full and extalloc returns nil for the new
\* buffer, alloc ends in gcAllocPanic if a GC() has run in this call;
\* otherwise it runs GC() and goes on from the registry that GC() left: no nil
\* buffer is installed, the length grows by at most the one appended record
\* and every record of the registry was left by that GC() or is the one
\* appended.
C15_BufferNilRestarts ==
    [][/\ BufferNil =>
            IF gcRan THEN OutOfMemory
            ELSE /\ gcCalls' = gcCalls + 1
                 /\ allocLen' = allocLen
                 /\ Len(allocations') = Len(allocations)
                 /\ allocNil' = allocNil
       /\ pc = "a_expandNil" =>
            /\ allocNil' => allocNil
            /\ allocLen' <= allocLen + 1
            /\ \A k \in 1 .. allocLen' :
                \/ \E i \in 1 .. allocLen : allocations[i] = allocations'[k]
                \/ k = allocLen' /\ allocations'[k].start = retPtr' /\ retPtr' # 0]_vars

\* C16: free(ptr) adds one to gcFrees, calls extfree(ptr) once and changes
\* neither the registry (length, capacity, records) nor gcTotalAlloc,
\* gcMallocs, heapUsageLimit, the scan queue or gcInProgress, whether or not
\* ptr is the start of a registry record.
C16_FreeFrame ==
    [][\A p \in Addr :
        CallFree(p) =>
            /\ gcFrees' = gcFrees + 1
            /\ extfreeCalls' = extfreeCalls + 1
            /\ live' = extfree(live, p)
            /\ UNCHANGED <<allocations, allocLen, allocNil, gcTotalAlloc, gcMallocs,
                           heapUsageLimit, referenceScanQueue, gcInProgress>>]_vars

\* C16 witness: a pointer that starts no registry record has been freed
\* while the registry holds a record (every record is still held by the host)
C16_Witness ==
    /\ lastOp = {"free"}
    /\ allocLen >= 1
    /\ gcFrees = 1
    /\ \A k \in 1 .. allocLen : \E r \in live : r.start = allocations[k].start

\* the step calls GC(): the program does, or alloc does through tryGC
CallsGC == (CallGC /\ ~gcInProgress) \/ gcCalls' = gcCalls + 1

\* C17: GC() called on an empty registry returns with gcInProgress false,
\* runs neither markStack nor findGlobals, scan or extfree, and leaves
\* gcTotalAlloc, gcMallocs, gcFrees, heapUsageLimit and the registry unchanged.
C17_EmptyRegistryGC ==
    [][(CallsGC /\ allocLen = 0) =>
            /\ "gcEmpty" \in lastOp'
            /\ ~gcInProgress'
            /\ pc' \in {"idle", "a_loop", "a_expandNil"}
            /\ allocLen' = 0
            /\ CallGC => UNCHANGED allocations
            /\ UNCHANGED <<gcTotalAlloc, gcMallocs, gcFrees, extfreeCalls, heapUsageLimit,
                           referenceScanQueue, live, mem, stackMem, globalsMem,
                           scanLog, pushLog, extfreeLog>>]_vars

\* C17 witness: the program has called GC() on a registry that an earlier
\* cycle had emptied
C17_Witness ==
    /\ lastOp = {"gcEmpty"}
    /\ pc = "idle"
    /\ allocLen = 0
    /\ gcFrees >= 1
    /\ Len(allocations) >= 1

\* the positions inside a GC() cycle on a registry that is not empty
CyclePhases == {"gc_markStack", "gc_findGlobals", "gc_drain", "gc_swept"}

\* the order of the phases: prepare leads to gc_markStack, sweep to gc_swept
PhaseOrder ==
    {<<"gc_markStack", "gc_findGlobals">>, <<"gc_findGlobals", "gc_drain">>,
     <<"gc_drain", "gc_drain">>, <<"gc_drain", "gc_swept">>}

\* the number of marked records of the registry arr[1..n]
MarkedCount(arr, n) == Cardinality({k \in 1 .. n : arr[k].marked})

\* the step marks a record or pushes one on the scan queue
MarksRecord ==
    \/ pushLog' # pushLog /\ pushLog' # <<>>
    \/ MarkedCount(allocations', allocLen') > MarkedCount(allocations, allocLen)
    \/ referenceScanQueue' \notin {0, referenceScanQueue}

\* C18: a GC() cycle on a registry that is not empty goes through prepare,
\* markStack, findGlobals, the drain and the sweep in this order: mark is not
\* called before prepareGC() has finished (the registry is sorted, unmarked
\* and the queue empty when markStack starts) nor once the sweep has started,
\* extfree is not called in the cycle before the drain has left the scan
\* queue empty, gcInProgress is true in all these phases and false when GC()
\* returns.
C18_PhaseOrder ==
    [][/\ pc' \in CyclePhases => gcInProgress'
       /\ (pc \notin CyclePhases /\ pc' \in CyclePhases) =>
            /\ CallsGC
            /\ pc' = "gc_markStack"
            /\ Sorted(allocations', allocLen')
            /\ referenceScanQueue' = 0
            /\ \A k \in 1 .. allocLen' : ~allocations'[k].marked /\ allocations'[k].next = 0
       /\ (pc \in CyclePhases /\ pc' \notin {"panic", gcRet}) => <<pc, pc'>> \in PhaseOrder
       /\ (pc \in CyclePhases /\ pc' = gcRet) => pc = "gc_swept" /\ ~gcInProgress'
       /\ MarksRecord => pc \in {"gc_markStack", "gc_findGlobals", "gc_drain"} /\ pc' # "gc_swept"
       /\ (gcInProgress /\ extfreeCalls' # extfreeCalls) =>
            /\ pc = "gc_drain"
            /\ pc' = "gc_swept"
            /\ referenceScanQueue = 0
            /\ extfreeCalls' = extfreeCalls + Len(extfreeLog')
       /\ extfreeLog' # <<>> => pc' = "gc_swept"]_vars

\* C18 witness: a cycle has gone through its phases, kept two marked records
\* and swept a third
C18_Witness ==
    /\ pc = "gc_swept"
    /\ gcInProgress
    /\ allocLen = 2
    /\ Len(extfreeLog) = 1
    /\ \A k \in 1 .. allocLen : allocations[k].marked

\* the positions outside the mark phase of a cycle in which the process runs
OutsideMark == pc \in {"idle", "a_loop", "a_expandNil", "gc_swept"}

\* C19: outside the mark phase of a cycle the next link of every registry
\* record is nil and the scan-queue head is nil.
C19_NextNilOutsideMark ==
    OutsideMark =>
        /\ referenceScanQueue = 0
        /\ \A k \in 1 .. allocLen : allocations[k].next = 0

\* C19, amended: outside the mark phase of a cycle the scan-queue head is nil
\* and the next link of every record that the last cycle did not mark is nil;
\* prepareGC() sets every next link to nil before the first mark call.
C19_QueueNilOutsideMark ==
    /\ OutsideMark =>
        /\ referenceScanQueue = 0
        /\ \A k \in 1 .. allocLen : ~allocations[k].marked => allocations[k].next = 0
    /\ pc = "gc_markStack" =>
        /\ referenceScanQueue = 0
        /\ \A k \in 1 .. allocLen : allocations[k].next = 0

\* C19 witness: GC() has returned and a record it kept still holds the queue
\* link that mark gave it
C19_Witness ==
    /\ pc = "idle"
    /\ ~gcInProgress
    /\ referenceScanQueue = 0
    /\ \E k \in 1 .. allocLen : allocations[k].marked /\ allocations[k].next # 0

\* C20: gcMallocs and gcFrees never decrease, gcMallocs is the number of
\* extalloc calls that returned a region and gcFrees the number of extfree
\* calls.
C20_CountersAreHostCalls ==
    [][/\ gcMallocs' >= gcMallocs
       /\ gcFrees' >= gcFrees
       /\ gcMallocs' = extallocOk'
       /\ gcFrees' = extfreeCalls']_vars

\* C20, amended: gcMallocs and gcFrees never decrease, gcMallocs is the
\* number of alloc calls that got past the check of gcInProgress (of any size,
\* whether or not extalloc was called or returned a region) and gcFrees the
\* number of extfree calls.
C20_CountersAreCalls ==
    [][/\ gcMallocs' >= gcMallocs
       /\ gcFrees' >= gcFrees
       /\ gcMallocs' = allocCalls'
       /\ gcFrees' = extfreeCalls']_vars

\* C20 witness: the counters differ from the host calls: a zero-sized alloc
\* and an alloc that ended in gcAllocPanic were counted, the registry buffers
\* were not
C20_Witness ==
    /\ pc = "panic"
    /\ fatal = "gcAllocPanic"
    /\ gcMallocs = MaxMallocs
    /\ extallocOk = 2
    /\ gcFrees >= 1

\* the records of the registry arr[1..n] whose inclusive interval holds addr
Containing(arr, n, addr) ==
    {k \in 1 .. n : arr[k].start <= addr /\ addr <= arr[k].end}

\* C23: on a registry sorted by start with pairwise disjoint records
\* (r_i.end <= r_{i+1}.start), searchAllocations(addr) returns a record with
\* start <= addr <= end when there is one and none otherwise, and the record
\* returned is the only record whose inclusive interval holds addr (here for
\* the registries of the mark phase in the traces in which free was never
\* called and the host allocator never answered nil while it had room).
C23_SearchUnique ==
    (MarkPhase /\ userFrees = 0 /\ hostNils = 0
        /\ Sorted(allocations, allocLen) /\ Disjoint(allocations, allocLen)) =>
        \A addr \in Addr :
            LET cur == searchAllocations(allocations, allocLen, addr)
            IN /\ cur # 0 <=> Containing(allocations, allocLen, addr) # {}
               /\ cur # 0 => Containing(allocations, allocLen, addr) = {cur}

\* C23, without the uniqueness: on a sorted registry of disjoint records the
\* search returns a record that holds addr when there is one, none otherwise
C23_SearchFinds ==
    (MarkPhase /\ Sorted(allocations, allocLen) /\ Disjoint(allocations, allocLen)) =>
        \A addr \in Addr :
            LET cur == searchAllocations(allocations, allocLen, addr)
            IN /\ cur # 0 <=> Containing(allocations, allocLen, addr) # {}
               /\ cur # 0 => cur \in Containing(allocations, allocLen, addr)

\* the slots of the scan queue of registry arr from head q on, following the
\* next links for at most fuel records
RECURSIVE QueueSlots(_, _, _)
QueueSlots(arr, q, fuel) ==
    IF q = 0 \/ fuel = 0 THEN <<>>
    ELSE <<q>> \o QueueSlots(arr, arr[q].next, fuel - 1)

\* the scan queue of registry arr[1..n] with head q is a finite list without
\* repetition of marked records of the registry, and every marked record is
\* on it or is one of the records done (scanned, or being scanned)
QueueWellFormed(arr, n, q, done) ==
    LET l == QueueSlots(arr, q, n + 1)
    IN /\ Len(l) <= n
       /\ \A i \in 1 .. Len(l) : l[i] \in 1 .. n /\ arr[l[i]].marked
       /\ \A i, j \in 1 .. Len(l) : i # j => l[i] # l[j]
       /\ \A k \in 1 .. n :
            arr[k].marked => k \in {l[i] : i \in 1 .. Len(l)} \cup done

\* the registry and the queue head after each mark call of
\* scan(start, end) on memory words, from the state st on
ScanPoints(st, n, words, start, end) ==
    LET addrs == scanAddrs(start, end)
    IN {markAll(st, n, words, SubSeq(addrs, 1, i)) : i \in 0 .. Len(addrs)}

\* C24: at every point of the mark phase (between the phases and after every
\* mark call of a scan) the scan queue reached from its head through the next
\* links is a finite list of distinct registry records without a cycle, every
\* record on it is marked, and every marked record is on the queue, is being
\* scanned or has been scanned in this cycle.
C24_QueueWellFormed ==
    [][/\ (MarkPhase /\ pc' # "panic") =>
            QueueWellFormed(allocations, allocLen, referenceScanQueue,
                            {scanLog[i] : i \in 1 .. Len(scanLog)})
       /\ (pc = "gc_markStack" /\ pc' = "gc_findGlobals") =>
            \A st \in ScanPoints([arr |-> allocations, q |-> referenceScanQueue, log |-> pushLog],
                                 allocLen, stackMem', 0, RootSize) :
                QueueWellFormed(st.arr, allocLen, st.q, {})
       /\ (pc = "gc_findGlobals" /\ pc' = "gc_drain") =>
            \A st \in ScanPoints([arr |-> allocations, q |-> referenceScanQueue, log |-> pushLog],
                                 allocLen, globalsMem', 0, RootSize) :
                QueueWellFormed(st.arr, allocLen, st.q, {})
       /\ (pc = "gc_drain" /\ pc' = "gc_drain") =>
            \A st \in ScanPoints([arr |-> allocations,
                                  q |-> allocations[referenceScanQueue].next,
                                  log |-> pushLog],
                                 allocLen, mem', allocations[referenceScanQueue].start,
                                 allocations[referenceScanQueue].end) :
                QueueWellFormed(st.arr, allocLen, st.q, {scanLog'[i] : i \in 1 .. Len(scanLog')})
       /\ pc' = "gc_drain" =>
            QueueWellFormed(allocations', allocLen', referenceScanQueue',
                            {scanLog'[i] : i \in 1 .. Len(scanLog')})]_vars

\* C24 witness: in the drain two records are on the scan queue, linked, and
\* a third has been scanned
C24_Witness ==
    /\ pc = "gc_drain"
    /\ Len(scanLog) = 1
    /\ referenceScanQueue # 0
    /\ allocations[referenceScanQueue].next # 0
    /\ Len(QueueSlots(allocations, referenceScanQueue, allocLen + 1)) = 2

\* the addresses of a sequence of loads
Loaded(addrs) == {addrs[i] : i \in 1 .. Len(addrs)}

\* scan(lo, hi) loads every pointer-aligned word that lies in [lo, hi), the
\* window that ends at hi when hi - lo is at least a pointer, and nothing
\* that is not inside [lo, hi)
ScanCovers(lo, hi) ==
    LET addrs == scanAddrs(lo, hi)
    IN /\ WordsOf(lo, hi) \subseteq Loaded(addrs)
       /\ hi - lo >= PtrSize => (hi - PtrSize) \in Loaded(addrs)
       /\ \A a \in Loaded(addrs) : lo <= a /\ a + PtrSize <= hi

\* the record in slot k is referenced only by the pointer to its start that
\* the last word of the stack extent holds
OnlyTailRoot(k) ==
    /\ stackMem[RootSize - PtrSize] = allocations[k].start
    /\ globalsMem[RootSize - PtrSize] = 0
    /\ \A a \in WordAddrs : mem[a] = 0

\* C25: scan(lo, hi) calls mark on the value of every pointer-aligned word
\* inside [lo, hi) and on the window that ends at hi when hi - lo is at least
\* a pointer, and loads nothing outside [lo, hi); so a record referenced only
\* by a pointer held at hi - PtrSize of a root range survives GC() (here for
\* the traces in which free was never called and the host allocator never
\* answered nil while it had room).
C25_TailPointerSurvives ==
    [][/\ (pc = "gc_markStack" /\ pc' = "gc_findGlobals") => ScanCovers(0, RootSize)
       /\ (pc = "gc_findGlobals" /\ pc' = "gc_drain") => ScanCovers(0, RootSize)
       /\ (pc = "gc_drain" /\ pc' = "gc_drain") =>
            ScanCovers(allocations[referenceScanQueue].start, allocations[referenceScanQueue].end)
       /\ (SweepStep /\ userFrees = 0 /\ hostNils = 0) =>
            \A k \in 1 .. allocLen : OnlyTailRoot(k) => SurvivesStep(allocations[k])]_vars

\* C25, the part about the loads: in every scan a cycle makes (the roots and
\* the ranges of the marked records) the pointer-aligned words inside the
\* range and the window at its end are loaded, and nothing outside it
C25_ScanLoads ==
    [][/\ (pc = "gc_markStack" /\ pc' = "gc_findGlobals") => ScanCovers(0, RootSize)
       /\ (pc = "gc_findGlobals" /\ pc' = "gc_drain") => ScanCovers(0, RootSize)
       /\ (pc = "gc_drain" /\ pc' = "gc_drain") =>
            ScanCovers(allocations[referenceScanQueue].start,
                       allocations[referenceScanQueue].end)]_vars

\* the step in which expandAllocationsIfNeeded installs a new registry buffer
GrowthStep == Len(allocations') # Len(allocations)

\* the records (start, end) of the registry arr[1..n], in order
Ranges(arr, n) == [k \in 1 .. n |-> <<arr[k].start, arr[k].end>>]

\* C26: the registry length never exceeds its capacity; the registry grows
\* only when its length equals its capacity, to capacity 1 from 0 and to
\* twice the capacity otherwise, the records below the old length stay as
\* they are and in order, and extfree is called on the old buffer once if the
\* old capacity was not zero and not at all if it was.
C26_RegistryGrowth ==
    [][/\ allocLen' <= Len(allocations')
       /\ GrowthStep =>
            /\ allocLen = Len(allocations)
            /\ Len(allocations') = double(Len(allocations))
            /\ IF "gcStart" \in lastOp'
               THEN SubSeq(sortIn', 1, allocLen) = Ranges(allocations, allocLen)
               ELSE \A k \in 1 .. allocLen : allocations'[k] = allocations[k]
            /\ extfreeCalls' = extfreeCalls + (IF Len(allocations) # 0 THEN 1 ELSE 0)]_vars

\* C26 for the growth steps in which extalloc returned the new buffer
C26_GrowthWithBuffer ==
    [][/\ allocLen' <= Len(allocations')
       /\ (GrowthStep /\ pc # "a_expandNil") =>
            /\ allocLen = Len(allocations)
            /\ Len(allocations') = double(Len(allocations))
            /\ IF "gcStart" \in lastOp'
               THEN SubSeq(sortIn', 1, allocLen) = Ranges(allocations, allocLen)
               ELSE \A k \in 1 .. allocLen : allocations'[k] = allocations[k]
            /\ extfreeCalls' = extfreeCalls + (IF Len(allocations) # 0 THEN 1 ELSE 0)]_vars

\* the behaviours in which alloc is called with the size that wraps
WrapNext ==
    \/ CallAlloc(WrapSize)
    \/ AllocLoop
    \/ AllocExpandNil
    \/ \E p \in Addr : CallFree(p)
    \/ CallGC
    \/ MarkStack
    \/ FindGlobals
    \/ FinishMarking
    \/ Sweep
    \/ GCReturn

WrapSpec == Init /\ [][WrapNext]_vars

\* the length of the registry the record of alloc is appended to: the one
\* expandAllocationsIfNeeded has installed
AppendedTo == IF pc = "a_expandNil" THEN hdrLen ELSE allocLen

\* C27: an alloc(n), n > 0, that returns appends one record at the end of the
\* registry, with start the pointer returned, end = start + n + align(pointer
\* size), marked false and next nil, and leaves the records present at that
\* moment unchanged; every record of the registry has start < end in every
\* reachable state.
C27_AppendOne ==
    [][/\ AllocReturns =>
            /\ allocLen' = AppendedTo + 1
            /\ allocations'[allocLen'] =
                   heapAllocation(retPtr', (retPtr' + reqSize + align(PtrSize)) % AddrSpace,
                                  FALSE, 0)
            /\ \A k \in 1 .. AppendedTo : allocations'[k] = allocations[k]
       /\ \A k \in 1 .. allocLen' : allocations'[k].start < allocations'[k].end]_vars

\* a bound on the iterations the loop of alloc has left: the iteration that
\* calls GC() sets gcRan, the next one grows the limit until the request is
\* admitted, the last one returns or ends in gcAllocPanic
LoopRank(ran, total, sz, limit) ==
    (IF ran THEN 0 ELSE 2) + (IF needGC(total, sz, limit) THEN 1 ELSE 0)

\* C28: an alloc call made while no collection is in progress ends: every
\* iteration of its loop returns, ends in a fatal, or goes on with fewer
\* iterations left (GC() was called and gcRan is set, or the limit was grown
\* and now admits the request), for every size, gcTotalAlloc and
\* heapUsageLimit, also when the limit saturates or the sum wraps a word, and
\* for every answer of the host allocator.
C28_LoopTerminates ==
    [][/\ (pc = "a_loop" /\ pc' = "a_loop") =>
            LoopRank(gcRan', gcTotalAlloc', size', heapUsageLimit')
                < LoopRank(gcRan, gcTotalAlloc, size, heapUsageLimit)
       /\ (pc = "a_loop" /\ pc' \notin {"a_loop", "idle", "panic"}) =>
            /\ ~gcRan
            /\ \/ pc' = "gc_markStack" /\ gcRet' \in {"a_loop", "a_expandNil"}
               \/ pc' = "a_expandNil" /\ gcRan'
       /\ (pc = "gc_swept" /\ pc' \in {"a_loop", "a_expandNil"}) => gcRan'
       /\ pc = "a_expandNil" => pc' \in {"idle", "panic"}]_vars

\* C28 for the requests whose sum with gcTotalAlloc fits a word
C28_LoopTerminatesFit ==
    [][/\ (pc = "a_loop" /\ pc' = "a_loop" /\ gcTotalAlloc + size < AddrSpace) =>
            LoopRank(gcRan', gcTotalAlloc', size', heapUsageLimit')
                < LoopRank(gcRan, gcTotalAlloc, size, heapUsageLimit)
       /\ (pc = "a_loop" /\ pc' \notin {"a_loop", "idle", "panic"}) =>
            /\ ~gcRan
            /\ \/ pc' = "gc_markStack" /\ gcRet' \in {"a_loop", "a_expandNil"}
               \/ pc' = "a_expandNil" /\ gcRan'
       /\ (pc = "gc_swept" /\ pc' \in {"a_loop", "a_expandNil"}) => gcRan'
       /\ pc = "a_expandNil" => pc' \in {"idle", "panic"}]_vars

(* ------------------------- C29: prepare and marks ----------------------- *)

\* the step in which GC() runs prepareGC() on a registry that is not empty
PrepareStep == pc \notin CyclePhases /\ pc' = "gc_markStack"

\* C29: when prepareGC() finishes every registry record has marked = false
\* and next = nil and the scan-queue head is nil, whatever the previous cycle
\* left; the records a cycle retains are marked when its sweep ends, and each
\* of them stays in its slot with marked = true in every later step up to the
\* prepare step of the next cycle.
C29_PrepareClears ==
    [][/\ PrepareStep =>
            /\ referenceScanQueue' = 0
            /\ \A k \in 1 .. allocLen' :
                 ~allocations'[k].marked /\ allocations'[k].next = 0
       /\ SweepStep =>
            \A k \in 1 .. allocLen' : allocations'[k].marked
       /\ (pc \in {"gc_swept", "idle", "a_loop", "a_expandNil"} /\ ~PrepareStep) =>
            \A k \in 1 .. allocLen :
                allocations[k].marked =>
                    /\ k <= allocLen'
                    /\ allocations'[k].marked
                    /\ allocations'[k].start = allocations[k].start]_vars

\* C29 witness: between two cycles, a record the last cycle retained is
\* marked and holds a queue link, and a record appended since is unmarked;
\* the next GC() prepares this registry
C29_Witness ==
    /\ pc = "idle"
    /\ ~gcInProgress
    /\ allocLen >= 2
    /\ \E k \in 1 .. allocLen : allocations[k].marked /\ allocations[k].next # 0
    /\ \E k \in 1 .. allocLen : ~allocations[k].marked

(* ------------------------ C30: no double release ------------------------ *)

\* the addresses of the sequence ps that extfree is called on while the host
\* does not hold a region starting there: ps is released in order on the
\* regions lv
RECURSIVE ReleasedTwice(_, _)
ReleasedTwice(lv, ps) ==
    IF ps = <<>> THEN {}
    ELSE (IF \E r \in lv : r.start = Head(ps) THEN {} ELSE {Head(ps)})
            \cup ReleasedTwice(extfree(lv, Head(ps)), Tail(ps))

\* C30: no region is released twice: every extfree call of a sweep is on an
\* address that extalloc has returned and that has not been released since,
\* also when the program has released regions with free(p).
C30_NoDoubleRelease ==
    [][(SweepStep /\ hostNils = 0) => ReleasedTwice(live, extfreeLog') = {}]_vars

\* C30, without free(p): as long as the program has called free on no
\* pointer, every extfree call of a sweep is on a region the host holds
C30_SweepReleasesHeld ==
    [][(SweepStep /\ hostNils = 0 /\ userFrees = 0) =>
            ReleasedTwice(live, extfreeLog') = {}]_vars

(* ------------- the leaking variant (gc_extalloc_leaking.go) ------------- *)

\* const gcFrees = 0
leak_gcFrees == 0

\* alloc(size) of the leaking variant with gcTotalAlloc = total, the host
\* answering ptr (0 for nil) if extalloc is reached: the address returned,
\* the new gcTotalAlloc, how the call stops and whether extalloc was called.
\* No statement of it changes gcMallocs.
leak_alloc(total, n, ptr) ==
    IF n = 0
    THEN [ret |-> SentinelAddr, total |-> total, fatal |-> "none", asked |-> FALSE]
    ELSE LET sz == (n + align(PtrSize)) % AddrSpace
         IN IF (total + sz) % Wide < total
            THEN [ret |-> 0, total |-> total, fatal |-> "abort", asked |-> FALSE]
            ELSE IF ptr = 0
                 THEN [ret |-> 0, total |-> total, fatal |-> "gcAllocPanic", asked |-> TRUE]
                 ELSE [ret |-> ptr, total |-> (total + sz) % Wide, fatal |-> "none",
                       asked |-> TRUE]

\* mutation of leak_free: the region is given back to the host
leak_free_release(lv, p) == extfree(lv, p)

\* free(ptr) of the leaking variant, on the regions the host holds: the body
\* is empty
leak_free(lv, p) == lv

\* ReadMemStats of the leaking variant
leak_ReadMemStats ==
    [HeapInuse |-> leakTotalAlloc, Mallocs |-> leakMallocs, Frees |-> leak_gcFrees]

\* ReadMemStats of the tracing variant
ReadMemStats ==
    [HeapInuse |-> gcTotalAlloc, Mallocs |-> gcMallocs, Frees |-> gcFrees]

\* the variables of the tracing variant that are not the host's
tracingVars == <<progVars, ctlVars, logVars>>

\* the program calls alloc(n) of the leaking variant
LeakAlloc(n) ==
    /\ leakFatal = "none"
    /\ leakCalls < MaxMallocs
    /\ LET sz    == (n + align(PtrSize)) % AddrSpace
           asks  == leak_alloc(leakTotalAlloc, n, 0).asked
           room  == FreeStarts(live, hostSize(sz))
       IN \E ptr \in IF asks THEN {0} \cup room ELSE {0} :
            /\ (asks /\ ptr = 0) => (room = {} \/ hostNils < MaxNils)
            /\ LET r == leak_alloc(leakTotalAlloc, n, ptr)
               IN /\ leakTotalAlloc' = r.total
                  /\ leakRet' = r.ret
                  /\ leakFatal' = r.fatal
                  /\ live' = IF asks /\ ptr # 0
                             THEN live \cup {[start |-> ptr, end |-> ptr + hostSize(sz)]}
                             ELSE live
                  /\ extallocOk' = IF asks /\ ptr # 0 THEN extallocOk + 1 ELSE extallocOk
                  /\ hostNils' = IF asks /\ ptr = 0 /\ room # {} THEN hostNils + 1 ELSE hostNils
    /\ leakMallocs' = leakMallocs
    /\ leakCalls' = leakCalls + 1
    /\ lastOp' = {"alloc"}
    /\ UNCHANGED <<tracingVars, userFrees, mem, stackMem, globalsMem, gcCalls,
                   extfreeCalls, allocCalls>>

\* the program calls free(p) of the leaking variant on a pointer alloc has
\* returned
LeakFree(p) ==
    /\ leakFatal = "none"
    /\ (\E r \in live : r.start = p) \/ p = SentinelAddr
    /\ live' = leak_free(live, p)
    /\ lastOp' = {"free"}
    /\ UNCHANGED <<tracingVars, leakVars, hostNils, userFrees, mem, stackMem, globalsMem,
                   gcCalls, extallocOk, extfreeCalls, allocCalls>>

\* the program calls GC() of the leaking variant: the body is empty
LeakGC ==
    /\ leakFatal = "none"
    /\ lastOp' = {"GC"}
    /\ UNCHANGED <<tracingVars, leakVars, envVars, gcCalls, extallocOk, extfreeCalls,
                   allocCalls>>

LeakNext ==
    \/ \E n \in Sizes : LeakAlloc(n)
    \/ \E p \in Addr : LeakFree(p)
    \/ LeakGC

\* the leaking variant alone
LeakSpec == Init /\ [][LeakNext]_vars

(* ------------------ the two variants on the same calls ------------------ *)

\* the program calls alloc(n) of the tracing variant, once the leaking
\* variant has answered the calls before
PairAlloc(n) == leakCalls = allocCalls /\ CallAlloc(n)

\* the loop of alloc of the tracing variant, the host refusing no request
\* that it has room for
PairAllocLoop == AllocLoop /\ hostNils' = 0

\* the sweep of a cycle in which every allocation was kept reachable
PairSweep == Sweep /\ extfreeLog' = <<>>

\* the same call, alloc(reqSize), made to the leaking variant, the host
\* giving its data request the answer it gave the tracing variant (retPtr)
LeakAllocFollows ==
    /\ pc = "idle"
    /\ leakCalls < allocCalls
    /\ leakFatal = "none"
    /\ LET r == leak_alloc(leakTotalAlloc, reqSize, retPtr)
       IN /\ leakTotalAlloc' = r.total
          /\ leakRet' = r.ret
          /\ leakFatal' = r.fatal
    /\ leakMallocs' = leakMallocs
    /\ leakCalls' = leakCalls + 1
    /\ UNCHANGED <<progVars, ctlVars, envVars, logVars, evVars>>

PairNext ==
    \/ \E n \in 0 .. MaxSize : PairAlloc(n)
    \/ PairAllocLoop
    \/ MarkStack
    \/ FindGlobals
    \/ FinishMarking
    \/ PairSweep
    \/ GCReturn
    \/ LeakAllocFollows

\* both variants, called with the same sequence of alloc calls
PairSpec == Init /\ [][PairNext]_vars

\* both variants have answered the same calls
BothAnswered == pc = "idle" /\ leakCalls = allocCalls /\ fatal = "none" /\ leakFatal = "none"

\* C21: for every sequence of alloc calls made to both variants, the host
\* giving the same answers to the same data requests and every allocation
\* kept reachable, after each call ReadMemStats reports the same Mallocs and
\* the same HeapInuse in both variants and alloc has returned the same
\* address in both.
C21_VariantsAgree ==
    BothAnswered =>
        /\ leak_ReadMemStats.Mallocs = ReadMemStats.Mallocs
        /\ leak_ReadMemStats.HeapInuse = ReadMemStats.HeapInuse
        /\ leakRet = retPtr

\* C21, without Mallocs: HeapInuse and the addresses returned agree
C21_HeapInuseAndAddressAgree ==
    BothAnswered =>
        /\ leak_ReadMemStats.HeapInuse = ReadMemStats.HeapInuse
        /\ leakRet = retPtr

\* C22: in the leaking variant extfree is never called, GC() and free()
\* change no state, ReadMemStats reports Frees = 0 and gcTotalAlloc never
\* decreases.
C22_LeakNeverFrees ==
    [][/\ extfreeCalls' = extfreeCalls
       /\ live \subseteq live'
       /\ lastOp' \in {{"free"}, {"GC"}} =>
            UNCHANGED <<leakVars, tracingVars, envVars, extallocOk, extfreeCalls>>
       /\ leak_ReadMemStats'.Frees = 0
       /\ leakTotalAlloc' >= leakTotalAlloc]_vars

\* C22 witness: after two allocations the program has called free on one of
\* them, and the host still holds both regions
C22_Witness ==
    /\ lastOp = {"free"}
    /\ leakCalls >= 2
    /\ Cardinality(live) = 2
    /\ leakTotalAlloc > 0
    /\ leak_ReadMemStats.Frees = 0

(* -------------------- C31: the allocation alloc returns ----------------- *)

\* the slots of the registry arr[1..n] whose record starts at addr
RecordsAt(arr, n, addr) == {k \in 1 .. n : arr[k].start = addr}

\* the pointer alloc returns in this step is the start of exactly one
\* registry record, and the host holds the region that starts there
ReturnsOwnRecord ==
    /\ Cardinality(RecordsAt(allocations', allocLen', retPtr')) = 1
    /\ \E r \in live' : r.start = retPtr'

\* C31: on return from every successful alloc(n) with n > 0 the pointer
\* returned is the start of exactly one registry record and its region has
\* not been passed to extfree since the extalloc call that produced it.
C31_ReturnedIsOneRecord ==
    [][(AllocReturns /\ hostNils' = 0) => ReturnsOwnRecord]_vars

\* C31, without free(p): as long as the program has called free on no pointer
\* and no host allocation has failed, the pointer returned is the start of
\* exactly one record and the host holds its region
C31_ReturnedIsOneRecordNoFree ==
    [][(AllocReturns /\ hostNils' = 0 /\ userFrees = 0) => ReturnsOwnRecord]_vars

(* ------------- the gc.custom variant (gc_custom_extalloc.go) ------------ *)

\* allocEntry: a record without the boolean; next # nil stands for marked
allocEntry(start, end, next) == [start |-> start, end |-> end, next |-> next]

\* the registry of the gc.custom variant that holds the records of arr[1..n]
\* with the marks of the boolean variant in its encoding: nil for an unmarked
\* record, the link for a marked one, the record itself where the link is nil
custom_allocations(arr, n) ==
    [k \in 1 .. n |->
        allocEntry(arr[k].start, arr[k].end,
                   IF ~arr[k].marked THEN 0
                   ELSE IF arr[k].next = 0 THEN k ELSE arr[k].next)]

\* unmarkAllocations of gc.custom
custom_unmarkAllocations(arr, n) ==
    [k \in 1 .. n |-> [arr[k] EXCEPT !.next = 0]]

\* mutation of custom_mark: no loop is inserted for the first record pushed
custom_mark_noLoop(arr, n, q, addr) ==
    IF n = 0 THEN [arr |-> arr, q |-> q, ret |-> FALSE, pushed |-> 0]
    ELSE IF addr < At(arr, 0).start \/ addr > At(arr, n - 1).end
    THEN [arr |-> arr, q |-> q, ret |-> FALSE, pushed |-> 0]
    ELSE LET curAlloc == searchAllocations(arr, n, addr)
         IN IF curAlloc # 0 /\ arr[curAlloc].next = 0
            THEN [arr |-> [arr EXCEPT ![curAlloc].next = q],
                  q |-> curAlloc, ret |-> TRUE, pushed |-> curAlloc]
            ELSE [arr |-> arr, q |-> q, ret |-> FALSE, pushed |-> 0]

\* mark(addr) of gc.custom on registry arr[1..n] and queue head q (scanQueue)
custom_mark(arr, n, q, addr) ==
    IF n = 0 THEN [arr |-> arr, q |-> q, ret |-> FALSE, pushed |-> 0]
    ELSE IF addr < At(arr, 0).start \/ addr > At(arr, n - 1).end
    THEN [arr |-> arr, q |-> q, ret |-> FALSE, pushed |-> 0]
    ELSE LET curAlloc == searchAllocations(arr, n, addr)
         IN IF curAlloc # 0 /\ arr[curAlloc].next = 0
            THEN LET nextAlloc == IF q = 0 THEN curAlloc ELSE q
                 IN [arr |-> [arr EXCEPT ![curAlloc].next = nextAlloc],
                     q |-> curAlloc, ret |-> TRUE, pushed |-> curAlloc]
            ELSE [arr |-> arr, q |-> q, ret |-> FALSE, pushed |-> 0]

\* the mark calls of a scan, given by their arguments calls, in order.
\* st = [arr, q, log]: registry, queue head, slots pushed so far.
RECURSIVE custom_markAll(_, _, _)
custom_markAll(st, n, calls) ==
    IF calls = <<>> THEN st
    ELSE LET r == custom_mark(st.arr, n, st.q, Head(calls))
         IN custom_markAll([arr |-> r.arr, q |-> r.q,
                            log |-> IF r.pushed # 0 THEN Append(st.log, r.pushed)
                                    ELSE st.log],
                           n, Tail(calls))

\* one iteration of the loop of finishMarking() of gc.custom: the head is
\* popped, nil taking the place of the loop of the last record, and the mark
\* calls of its scan follow
custom_finishMarkingStep(arr, n, q, log, calls) ==
    LET curAlloc  == q
        nextAlloc == IF arr[curAlloc].next = curAlloc THEN 0 ELSE arr[curAlloc].next
    IN custom_markAll([arr |-> arr, q |-> nextAlloc, log |-> log], n, calls)

\* the loop of sweep() of gc.custom from index i on
RECURSIVE custom_sweepFrom(_, _, _, _, _, _)
custom_sweepFrom(arr, n, i, j, total, frees) ==
    IF i >= n THEN [arr |-> arr, len |-> j, total |-> total, frees |-> frees]
    ELSE LET curAlloc == At(arr, i)
         IN IF curAlloc.next = 0
            THEN custom_sweepFrom(arr, n, i + 1, j, total, Append(frees, curAlloc.start))
            ELSE custom_sweepFrom([arr EXCEPT ![j + 1] = curAlloc], n, i + 1, j + 1,
                                  (total + ((curAlloc.end + AddrSpace - curAlloc.start)
                                                % AddrSpace)) % Wide,
                                  frees)

custom_sweep(arr, n) == custom_sweepFrom(arr, n, 0, 0, 0, <<>>)

\* the arguments of the mark calls of scan(start, end) on the memory words
MarkCalls(words, start, end) ==
    LET addrs == scanAddrs(start, end)
    IN [i \in 1 .. Len(addrs) |-> Load(words, addrs[i])]

\* the elements of a sequence
Elems(s) == {s[i] : i \in 1 .. Len(s)}

\* gc.custom, started on the encoding of the registry of this state and given
\* the mark calls of this step, ends on the encoding of the registry of the
\* next state, with the same queue head and the same records pushed
SameMarking(c) ==
    /\ c.arr = custom_allocations(allocations', allocLen')
    /\ c.q = referenceScanQueue'
    /\ c.log = pushLog'

\* C32: gc.custom, which encodes 'marked' as a next link that is not nil
\* (the last record of the queue linked to itself), keeps and frees the
\* same records as the boolean marking for the same registry and the same
\* sequence of mark calls: after prepare, after every scan of the roots and
\* every iteration of finishMarking the two registries hold the same marks
\* and the same queue, the record an iteration scans was not scanned before,
\* finishMarking ends with the queue nil, every record mark reached was
\* scanned, and the sweep keeps a record if and only if mark reached it,
\* frees the same addresses and leaves the same gcTotalAlloc.
C32_CustomMarksAlike ==
    [][LET cst == [arr |-> custom_allocations(allocations, allocLen),
                   q |-> referenceScanQueue, log |-> pushLog]
       IN /\ PrepareStep =>
                /\ referenceScanQueue' = 0
                /\ custom_allocations(allocations', allocLen') =
                     custom_unmarkAllocations(custom_allocations(allocations', allocLen'),
                                              allocLen')
          /\ (pc = "gc_markStack" /\ pc' = "gc_findGlobals") =>
                SameMarking(custom_markAll(cst, allocLen, MarkCalls(stackMem', 0, RootSize)))
          /\ (pc = "gc_findGlobals" /\ pc' = "gc_drain") =>
                SameMarking(custom_markAll(cst, allocLen, MarkCalls(globalsMem', 0, RootSize)))
          /\ (pc = "gc_drain" /\ pc' = "gc_drain") =>
                /\ referenceScanQueue \notin Elems(scanLog)
                /\ SameMarking(custom_finishMarkingStep(
                        cst.arr, allocLen, cst.q, cst.log,
                        MarkCalls(mem', allocations[referenceScanQueue].start,
                                  allocations[referenceScanQueue].end)))
          /\ SweepStep =>
                LET sw == custom_sweep(cst.arr, allocLen)
                IN /\ cst.q = 0
                   /\ Elems(scanLog) = Elems(pushLog)
                   /\ \A k \in 1 .. allocLen : cst.arr[k].next # 0 <=> k \in Elems(pushLog)
                   /\ sw.len = allocLen'
                   /\ \A k \in 1 .. sw.len :
                        /\ sw.arr[k].start = allocations'[k].start
                        /\ sw.arr[k].end = allocations'[k].end
                        /\ sw.arr[k].next # 0
                   /\ sw.frees = extfreeLog'
                   /\ sw.total = gcTotalAlloc']_vars

\* C32 witness: the drain of a cycle has ended with one record linked to
\* itself, one linked to another record and one that mark did not reach
C32_Witness ==
    /\ pc = "gc_drain"
    /\ referenceScanQueue = 0
    /\ allocLen = 3
    /\ LET arr == custom_allocations(allocations, allocLen)
       IN /\ \E k \in 1 .. allocLen : arr[k].next = k
          /\ \E k \in 1 .. allocLen : arr[k].next \notin {0, k}
          /\ \E k \in 1 .. allocLen : arr[k].next = 0

====
